---- MODULE Spec2Model ----
(***************************************************************************)
(* A model of src/main.py: the relay command server running under the      *)
(* cooperative uasyncio scheduler.  One action is the code a task runs     *)
(* between two points of its source; `running` names the task that holds   *)
(* the interpreter (it has not reached an await yet), so that everything   *)
(* between two awaits is atomic with respect to the other tasks, blocking  *)
(* socket calls included.                                                  *)
(***************************************************************************)
EXTENDS Integers, Sequences, FiniteSets, TLC

(***************************************************************************)
(* Configuration (module-level constants of main.py)                       *)
(***************************************************************************)
RELAY_PORT1 == [pin |-> 2, port |-> 7776]
RELAY_PORT2 == [pin |-> 3, port |-> 7775]
RELAY_PORT3 == [pin |-> 4, port |-> 7774]
REBOOT_TIME == 5
REBOOT_RELAY == RELAY_PORT1.pin
TIME_ZONE == -5
NETWORK_TIMEOUT == 10
SHORT_RELAY_TIME == 200
LONG_RELAY_TIME == 7000
CHECK_TIME == 180
CONN_TIMEOUT == 3
EAGAIN == 11
ETIMEDOUT == 110

Servers == {"s1", "s2", "s3"}
Tasks == Servers \cup {"daily", "watch", "main"}
Pins == {RELAY_PORT1.pin, RELAY_PORT2.pin, RELAY_PORT3.pin}

\* The (relay, port) pair main() hands to each receive_command task.
Binding(p) ==
    CASE p = "s1" -> RELAY_PORT1
      [] p = "s2" -> RELAY_PORT2
      [] p = "s3" -> RELAY_PORT3

RelayOf(p) == Binding(p).pin

(***************************************************************************)
(* Payloads.  A payload is a sequence of lexical tokens: "s:x" is the JSON *)
(* string "x", "n:1" a number, "xFF" a byte that is not valid UTF-8.       *)
(***************************************************************************)
StrToks == {"s:gpio", "s:on", "s:fs", "s:xyz", "s:foo"}
ScalarToks == StrToks \cup {"n:1", "null"}

\* What a client has sent when recv returns: one message, or two commands
\* one after the other.
Messages ==
    { <<"{", "s:gpio", ":", "s:on", "}">>,
      <<"{", "s:gpio", ":", "s:fs", "}">>,
      <<"{", "s:gpio", ":", "s:xyz", "}">>,
      <<"{", "s:gpio", ":", "n:1", "}">>,
      <<"{", "s:foo", ":", "s:on", "}">>,
      <<"{", "}">>,
      <<"[", "s:on", "]">>,
      <<"s:on">>,
      <<"n:1">>,
      <<"null">>,
      <<"xFF">>,
      <<"{", "s:gpio", ":", "s:on", "}", "}">>,
      <<"{", "s:gpio", ":", "s:on", "}", "{", "s:gpio", ":", "s:fs", "}">> }

Prefixes(s) == { SubSeq(s, 1, n) : n \in 0..Len(s) }

\* What one conn.recv(1024) can return: a TCP segment boundary may fall
\* anywhere in the message, and b'' is returned when the peer has closed.
Chunks == UNION { Prefixes(m) : m \in Messages }

ValueError == [t |-> "ValueError", k |-> "", v |-> ""]

\* bytes.decode(): UnicodeError (a ValueError) on a byte that is not UTF-8.
DecodeOk(data) == \A i \in 1..Len(data) : data[i] # "xFF"

\* ujson.loads on the decoded text: a scalar, a list of at most one scalar,
\* an object of at most one member; anything else (the empty text, an
\* unfinished value, text after the value) is a ValueError.
Loads(s) ==
    IF Len(s) = 1 /\ s[1] \in ScalarToks
    THEN [t |-> IF s[1] = "null" THEN "null"
                ELSE IF s[1] \in StrToks THEN "str" ELSE "num",
          k |-> "", v |-> s[1]]
    ELSE IF s = <<"[", "]">> THEN [t |-> "list", k |-> "", v |-> ""]
    ELSE IF Len(s) = 3 /\ s[1] = "[" /\ s[2] \in ScalarToks /\ s[3] = "]"
    THEN [t |-> "list", k |-> "", v |-> s[2]]
    ELSE IF s = <<"{", "}">> THEN [t |-> "dict", k |-> "", v |-> ""]
    ELSE IF Len(s) = 5 /\ s[1] = "{" /\ s[2] \in StrToks /\ s[3] = ":"
            /\ s[4] \in ScalarToks /\ s[5] = "}"
    THEN [t |-> "dict", k |-> s[2], v |-> s[4]]
    ELSE ValueError

\* data.decode() followed by ujson.loads(data), as in receive_command.
Parse(data) == IF DecodeOk(data) THEN Loads(data) ELSE ValueError

\* command['gpio']: the member's value, or the exception the subscript raises.
GetGpio(command) ==
    IF command.t = "dict"
    THEN IF command.k = "s:gpio" THEN command.v ELSE "KeyError"
    ELSE "TypeError"

(***************************************************************************)
(* Calendar and daylight saving                                            *)
(***************************************************************************)
\* _weekday inside _check_dst: Zeller's congruence, Monday = 0 ... Sunday = 6.
weekday(year, month, day) ==
    LET m == IF month < 3 THEN month + 12 ELSE month
        y == IF month < 3 THEN year - 1 ELSE year
        k == y % 100
        j == y \div 100
        h == (day + ((13 * (m + 1)) \div 5) + k + (k \div 4) + (j \div 4) + 5 * j) % 7
    IN  (h + 5) % 7

\* The first Sunday of March.
first_sun_mar(year) == 1 + ((6 - weekday(year, 3, 1)) % 7)

second_sun_mar(year) == 1 + ((6 - weekday(year, 3, 1)) % 7) + 7

first_sun_nov(year) == 1 + ((6 - weekday(year, 11, 1)) % 7)

\* The value _check_dst stores in in_dst for the date time.localtime() gives.
check_dst(year, month, mday) ==
    IF 3 < month /\ month < 11 THEN TRUE
    ELSE IF month = 3 /\ mday >= second_sun_mar(year) THEN TRUE
    ELSE IF month = 11 /\ mday < first_sun_nov(year) THEN TRUE
    ELSE FALSE

(***************************************************************************)
(* The real-time clock: a UTC date and the milliseconds since midnight.    *)
(***************************************************************************)
DAY_MS == 86400000
HOUR_MS == 3600000

IsLeap(y) == (y % 4 = 0 /\ y % 100 # 0) \/ y % 400 = 0

DaysIn(y, m) ==
    IF m = 2 THEN (IF IsLeap(y) THEN 29 ELSE 28)
    ELSE IF m \in {4, 6, 9, 11} THEN 30 ELSE 31

NextDate(d) ==
    IF d.day < DaysIn(d.year, d.month) THEN [d EXCEPT !.day = d.day + 1]
    ELSE IF d.month < 12 THEN [year |-> d.year, month |-> d.month + 1, day |-> 1]
    ELSE [year |-> d.year + 1, month |-> 1, day |-> 1]

PrevDate(d) ==
    IF d.day > 1 THEN [d EXCEPT !.day = d.day - 1]
    ELSE IF d.month > 1
    THEN [year |-> d.year, month |-> d.month - 1, day |-> DaysIn(d.year, d.month - 1)]
    ELSE [year |-> d.year - 1, month |-> 12, day |-> 31]

\* The instant `delta` milliseconds after t, for -DAY_MS < delta <= DAY_MS.
Shift(t, delta) ==
    LET ms == t.ms + delta
    IN  IF ms < 0 THEN [date |-> PrevDate(t.date), ms |-> ms + DAY_MS]
        ELSE IF ms >= DAY_MS THEN [date |-> NextDate(t.date), ms |-> ms - DAY_MS]
        ELSE [date |-> t.date, ms |-> ms]

\* _get_localtime(): time.localtime(time.time() + tz * 3600), tz being
\* TIME_ZONE, one more while in_dst.
get_localtime(t, dst) ==
    LET tz == IF dst THEN TIME_ZONE + 1 ELSE TIME_ZONE
        l == Shift(t, tz * HOUR_MS)
    IN  [date |-> l.date, hour |-> l.ms \div HOUR_MS,
         minute |-> (l.ms % HOUR_MS) \div 60000]

(***************************************************************************)
(* State                                                                   *)
(***************************************************************************)
VARIABLES
    reboots,        \* ENABLE_REBOOTS, fixed at build time
    nic,            \* the network interface: "off", "joining" or "up"
    pc,             \* where each task stands in its coroutine
    running,        \* the task holding the interpreter, "none" between tasks
    sleepMs,        \* the duration of the sleep each task is suspended in
    left,           \* network_timeout of each activation of attempt_connection
    cmd,            \* the pulse coroutine each server awaits: "none", "on", "fs"
    conn,           \* the connection each server has accepted: whether it
                    \* is open, and the timeout set on it (ms)
    sock,           \* each listening socket: "none", "open" or "closed"
    sockets_opened, \* the global flag of main.py
    time_is_set,    \* the global flag of main.py
    in_dst,         \* the global flag of main.py
    pin,            \* the level of each relay pin
    rtc,            \* the clock, where it is modelled as running
    hist,           \* the last read, until accept gives its server a
                    \* connection or an error: the server, what recv gave
                    \* it, and the time it sat in the call when it timed out
    fires,          \* the local times at which daily_task ran its body
    due,            \* when each task's sleep ends (ms on the clock's scale),
                    \* where the clock is modelled as running
    handled         \* for the connection each server accepted last: how many
                    \* payloads it has decoded and how many pulses it has
                    \* started (counted up to 2)

node == <<reboots, nic, pc, running, sleepMs, left, cmd, conn, sock,
          sockets_opened, time_is_set, in_dst, pin>>
vars == <<reboots, nic, pc, running, sleepMs, left, cmd, conn, sock,
          sockets_opened, time_is_set, in_dst, pin, rtc, hist, fires, due, handled>>

Callers == {"main", "watch"}

NoConn == [open |-> FALSE, timeout |-> 0]
NoneHandled == [decoded |-> 0, pulsed |-> 0]
NoRead == [srv |-> "none", r |-> [ok |-> FALSE, data |-> <<>>, errno |-> 0], waited |-> 0]

\* The device as reset() or power-up leaves it.
Boot(rb) ==
    /\ reboots = rb
    /\ nic = "off"
    /\ pc = [t \in Tasks |-> IF t = "main" THEN "boot" ELSE "off"]
    /\ running = "none"
    /\ sleepMs = [t \in Tasks |-> 0]
    /\ left = [c \in Callers |-> 0]
    /\ cmd = [p \in Servers |-> "none"]
    /\ conn = [p \in Servers |-> NoConn]
    /\ sock = [p \in Servers |-> "none"]
    /\ sockets_opened = FALSE
    /\ time_is_set = FALSE
    /\ in_dst = FALSE
    /\ pin = [r \in Pins |-> 0]

CanRun(t) == running \in {"none", t}

\* The task suspends in uasyncio.sleep for ms milliseconds at label l.
Await(t, l, ms) ==
    /\ pc' = [pc EXCEPT ![t] = l]
    /\ sleepMs' = [sleepMs EXCEPT ![t] = ms]
    /\ running' = "none"

\* The task goes on to label l without reaching an await.
Goto(t, l) ==
    /\ pc' = [pc EXCEPT ![t] = l]
    /\ sleepMs' = [sleepMs EXCEPT ![t] = 0]
    /\ running' = t

\* An exception leaves a task made by create_task: the task ends, and the
\* scheduler goes on with the others.
Die(t) ==
    /\ pc' = [pc EXCEPT ![t] = "dead"]
    /\ sleepMs' = [sleepMs EXCEPT ![t] = 0]
    /\ running' = "none"

(***************************************************************************)
(* The network link, as the environment moves it                           *)
(***************************************************************************)
LinkUp ==
    /\ nic = "joining"
    /\ nic' = "up"
    /\ UNCHANGED <<reboots, pc, running, sleepMs, left, cmd, conn, sock,
                   sockets_opened, time_is_set, in_dst, pin>>

LinkDown ==
    /\ nic = "up"
    /\ nic' = "joining"
    /\ UNCHANGED <<reboots, pc, running, sleepMs, left, cmd, conn, sock,
                   sockets_opened, time_is_set, in_dst, pin>>

(***************************************************************************)
(* receive_command(socket, relay, port)                                    *)
(***************************************************************************)
\* The errno of an OSError: the two the code tells apart and one other
\* (104, a connection reset by the peer).
Errnos == {EAGAIN, ETIMEDOUT, 104}

AcceptResults ==
    {[ok |-> TRUE, errno |-> 0]} \cup {[ok |-> FALSE, errno |-> e] : e \in Errnos}

\* conn.recv(1024) returns bytes or raises OSError; after conn.settimeout(3)
\* it returns or raises within CONN_TIMEOUT seconds, and the interpreter sits
\* in the call until then.
RecvResults ==
    {[ok |-> TRUE, data |-> d, errno |-> 0] : d \in Chunks}
        \cup {[ok |-> FALSE, data |-> <<>>, errno |-> e] : e \in Errnos}

PulseTime(c) == IF c = "on" THEN SHORT_RELAY_TIME ELSE LONG_RELAY_TIME

\* What receive_command does with the result of one recv is one of: "retry"
\* (sleep 100 ms and read again), "raise" (the exception leaves the task),
\* "close" (no actuation), "on" (power_on), "fs" (force_shutdown).

\* except OSError as e: 110 ends the read, 11 retries it, the rest is raised.
OnErrorRaiseTimeout(errno) == IF errno = EAGAIN THEN "retry" ELSE "raise"

OnError(errno) ==
    IF errno = ETIMEDOUT THEN "close"
    ELSE IF errno = EAGAIN THEN "retry" ELSE "raise"

\* if command['gpio'] == 'on' ... elif command['gpio'] == 'fs' ... else
DispatchElseOn(gpio) == IF gpio = "s:fs" THEN "fs" ELSE "on"

Dispatch(gpio) ==
    IF gpio = "s:on" THEN "on"
    ELSE IF gpio = "s:fs" THEN "fs"
    ELSE "close"

\* A read loop that reads again after text that is no JSON.
OnDataRetryInvalid(data) ==
    LET command == Parse(data)
    IN  IF command.t = "ValueError" THEN "retry"
        ELSE IF command.t = "null" THEN "close"
        ELSE LET gpio == GetGpio(command)
             IN  IF gpio \in {"KeyError", "TypeError"} THEN "raise"
                 ELSE Dispatch(gpio)

\* try: data.decode(), ujson.loads / except ValueError; if command != None.
OnData(data) ==
    LET command == Parse(data)
    IN  IF command.t \in {"ValueError", "null"} THEN "close"
        ELSE LET gpio == GetGpio(command)
             IN  IF gpio \in {"KeyError", "TypeError"} THEN "raise"
                 ELSE Dispatch(gpio)

Decision(r) == IF r.ok THEN OnData(r.data) ELSE OnError(r.errno)

\* A loop that goes back to accept without conn.close().
LeaveOpen(p) == conn

\* conn.close() at the end of the loop body.
Close(p) == [conn EXCEPT ![p] = NoConn]

\* socket.accept() at the top of the loop, up to the recv it leads to.
Accept(p, a) ==
    /\ pc[p] = "accept"
    /\ CanRun(p)
    /\ IF a.ok
       THEN /\ conn' = [conn EXCEPT ![p] = [open |-> TRUE, timeout |-> CONN_TIMEOUT * 1000]]
            /\ Goto(p, "recv")
       ELSE /\ IF a.errno = EAGAIN THEN Await(p, "accept", 100) ELSE Die(p)
            /\ UNCHANGED conn
    /\ UNCHANGED <<reboots, nic, left, cmd, sock, sockets_opened, time_is_set,
                   in_dst, pin>>

\* conn.recv(1024) returns, and the code up to the next await runs.  The
\* call times out only under a timeout.
Recv(p, r) ==
    /\ pc[p] = "recv"
    /\ running = p
    /\ (~r.ok /\ r.errno = ETIMEDOUT) => conn[p].timeout > 0
    /\ LET d == Decision(r)
       IN  CASE d = "retry" ->
                  /\ Await(p, "recvwait", 100)
                  /\ UNCHANGED <<cmd, conn, pin>>
             [] d = "raise" ->
                  /\ Die(p)
                  /\ UNCHANGED <<cmd, conn, pin>>
             [] d = "close" ->
                  /\ conn' = Close(p)
                  /\ Goto(p, "accept")
                  /\ UNCHANGED <<cmd, pin>>
             [] d \in {"on", "fs"} ->
                  /\ cmd' = [cmd EXCEPT ![p] = d]
                  /\ pin' = [pin EXCEPT ![RelayOf(p)] = 1]
                  /\ Await(p, "pulse", PulseTime(d))
                  /\ UNCHANGED conn
    /\ UNCHANGED <<reboots, nic, left, sock, sockets_opened, time_is_set, in_dst>>

\* The sleep after EAGAIN is over: recv is called again.
RecvAgain(p) ==
    /\ pc[p] = "recvwait"
    /\ CanRun(p)
    /\ Goto(p, "recv")
    /\ UNCHANGED <<reboots, nic, left, cmd, conn, sock, sockets_opened,
                   time_is_set, in_dst, pin>>

\* A pulse that ends without relay.value(0).
PulseEndStaysHigh(p) ==
    /\ pc[p] = "pulse"
    /\ CanRun(p)
    /\ cmd' = [cmd EXCEPT ![p] = "none"]
    /\ conn' = Close(p)
    /\ Goto(p, "accept")
    /\ UNCHANGED <<reboots, nic, left, sock, sockets_opened, time_is_set, in_dst, pin>>

\* The sleep of power_on / force_shutdown is over: relay.value(0), then
\* conn.close() and back to the top of the loop.
PulseEnd(p) ==
    /\ pc[p] = "pulse"
    /\ CanRun(p)
    /\ pin' = [pin EXCEPT ![RelayOf(p)] = 0]
    /\ cmd' = [cmd EXCEPT ![p] = "none"]
    /\ conn' = Close(p)
    /\ Goto(p, "accept")
    /\ UNCHANGED <<reboots, nic, left, sock, sockets_opened, time_is_set, in_dst>>

(***************************************************************************)
(* daily_task(reboot_relay), run at clock instant t                        *)
(***************************************************************************)
DailyPoll(t) ==
    /\ pc["daily"] = "poll"
    /\ CanRun("daily")
    /\ LET current_time == get_localtime(t, in_dst)
       IN  IF current_time.hour = REBOOT_TIME /\ current_time.minute = 0
           THEN IF reboots
                THEN /\ pin' = [pin EXCEPT ![REBOOT_RELAY] = 1]
                     /\ Await("daily", "d_fs", LONG_RELAY_TIME)
                ELSE /\ Goto("daily", "d_sync")
                     /\ UNCHANGED pin
           ELSE /\ Await("daily", "poll", 30000)
                /\ UNCHANGED pin
    /\ UNCHANGED <<reboots, nic, left, cmd, conn, sock, sockets_opened,
                   time_is_set, in_dst>>

\* A firing that goes from force_shutdown to power_on without the sleep.
DailyFsEndNoGap ==
    /\ pc["daily"] = "d_fs"
    /\ CanRun("daily")
    /\ pin' = [pin EXCEPT ![REBOOT_RELAY] = 0]
    /\ Await("daily", "d_gap", 0)
    /\ UNCHANGED <<reboots, nic, left, cmd, conn, sock, sockets_opened,
                   time_is_set, in_dst>>

\* force_shutdown ends; await uasyncio.sleep(3).
DailyFsEnd ==
    /\ pc["daily"] = "d_fs"
    /\ CanRun("daily")
    /\ pin' = [pin EXCEPT ![REBOOT_RELAY] = 0]
    /\ Await("daily", "d_gap", 3000)
    /\ UNCHANGED <<reboots, nic, left, cmd, conn, sock, sockets_opened,
                   time_is_set, in_dst>>

\* power_on begins.
DailyGapEnd ==
    /\ pc["daily"] = "d_gap"
    /\ CanRun("daily")
    /\ pin' = [pin EXCEPT ![REBOOT_RELAY] = 1]
    /\ Await("daily", "d_on", SHORT_RELAY_TIME)
    /\ UNCHANGED <<reboots, nic, left, cmd, conn, sock, sockets_opened,
                   time_is_set, in_dst>>

\* power_on ends.
DailyOnEnd ==
    /\ pc["daily"] = "d_on"
    /\ CanRun("daily")
    /\ pin' = [pin EXCEPT ![REBOOT_RELAY] = 0]
    /\ Goto("daily", "d_sync")
    /\ UNCHANGED <<reboots, nic, left, cmd, conn, sock, sockets_opened,
                   time_is_set, in_dst>>

\* ntptime.settime() (an OSError when the time server does not answer),
\* _check_dst(), await uasyncio.sleep(3600).
DailySync(t, ok) ==
    /\ pc["daily"] = "d_sync"
    /\ running = "daily"
    /\ IF ok
       THEN /\ in_dst' = check_dst(t.date.year, t.date.month, t.date.day)
            /\ Await("daily", "poll", 3600000)
       ELSE /\ Die("daily")
            /\ UNCHANGED in_dst
    /\ UNCHANGED <<reboots, nic, left, cmd, conn, sock, sockets_opened,
                   time_is_set, pin>>

(***************************************************************************)
(* The fault handler of main(): except Exception ... reset()               *)
(***************************************************************************)
\* s1.close(); s2.close(); s3.close() run only under sockets_opened.
Handler ==
    /\ sock' = IF sockets_opened THEN [p \in Servers |-> "closed"] ELSE sock
    /\ pc' = [pc EXCEPT !["main"] = "reset"]
    /\ sleepMs' = [sleepMs EXCEPT !["main"] = 0]
    /\ running' = "main"

\* An exception raised in task c: main's own code runs inside its try block,
\* a task made by create_task has no handler around it.
RaiseIntoMain(c) == Handler

Raise(c) ==
    IF c = "main" THEN Handler ELSE Die(c) /\ UNCHANGED sock

(***************************************************************************)
(* attempt_connection(), awaited by main or by check_connection            *)
(***************************************************************************)
\* The activation returns to its caller (its local network_timeout is gone):
\* main goes on with its start-up, check_connection loops to
\* await uasyncio.sleep(CHECK_TIME).
Return(c) ==
    /\ left' = [left EXCEPT ![c] = 0]
    /\ IF c = "main" THEN Goto(c, "startup") ELSE Await(c, "w_sleep", CHECK_TIME * 1000)

\* One pass of `while attempting_connection`, from nic.connect() to the
\* first await or to the return.
Connect(c, ok) ==
    /\ pc[c] = "ac_top"
    /\ running = c
    /\ IF ~ok
       THEN /\ Raise(c)
            /\ UNCHANGED <<nic, left>>
       ELSE /\ nic' = IF nic = "up" THEN "up" ELSE "joining"
            /\ IF nic # "up" /\ NETWORK_TIMEOUT > 0
               THEN /\ left' = [left EXCEPT ![c] = NETWORK_TIMEOUT - 1]
                    /\ Await(c, "ac_poll", 1000)
               ELSE Return(c)
            /\ UNCHANGED sock
    /\ UNCHANGED <<reboots, cmd, conn, sockets_opened, time_is_set, in_dst, pin>>

\* An attempt_connection that gives up when its polls are used up.
PollReturnOnTimeout(c) ==
    /\ pc[c] = "ac_poll"
    /\ CanRun(c)
    /\ IF nic # "up" /\ left[c] > 0
       THEN /\ left' = [left EXCEPT ![c] = left[c] - 1]
            /\ Await(c, "ac_poll", 1000)
       ELSE Return(c)
    /\ UNCHANGED <<reboots, nic, cmd, conn, sock, sockets_opened, time_is_set,
                   in_dst, pin>>

\* After await uasyncio.sleep(1) in the inner while: test again, then the
\* if / else that follows the loop.
Poll(c) ==
    /\ pc[c] = "ac_poll"
    /\ CanRun(c)
    /\ IF nic # "up" /\ left[c] > 0
       THEN /\ left' = [left EXCEPT ![c] = left[c] - 1]
            /\ Await(c, "ac_poll", 1000)
       ELSE IF nic = "up"
            THEN Return(c)
            ELSE /\ left' = [left EXCEPT ![c] = 0]
                 /\ Await(c, "ac_backoff", 1000)
    /\ UNCHANGED <<reboots, nic, cmd, conn, sock, sockets_opened, time_is_set,
                   in_dst, pin>>

\* After 'Connection failed, reattempting...' and its sleep: the outer loop.
Backoff(c) ==
    /\ pc[c] = "ac_backoff"
    /\ CanRun(c)
    /\ Goto(c, "ac_top")
    /\ UNCHANGED <<reboots, nic, left, cmd, conn, sock, sockets_opened,
                   time_is_set, in_dst, pin>>

(***************************************************************************)
(* check_connection()                                                      *)
(***************************************************************************)
WatchTop ==
    /\ pc["watch"] = "w_top"
    /\ CanRun("watch")
    /\ Await("watch", "w_sleep", CHECK_TIME * 1000)
    /\ UNCHANGED <<reboots, nic, left, cmd, conn, sock, sockets_opened,
                   time_is_set, in_dst, pin>>

\* _ping(): TRUE when the TCP connection to 8.8.8.8:53 is made, which takes
\* the link; FALSE on any OSError.
PingResults == IF nic = "up" THEN {TRUE, FALSE} ELSE {FALSE}

WatchProbe(alive) ==
    /\ pc["watch"] = "w_sleep"
    /\ CanRun("watch")
    /\ alive \in PingResults
    /\ IF alive
       THEN Await("watch", "w_sleep", CHECK_TIME * 1000)
       ELSE Goto("watch", "ac_top")
    /\ UNCHANGED <<reboots, nic, left, cmd, conn, sock, sockets_opened,
                   time_is_set, in_dst, pin>>

(***************************************************************************)
(* main()                                                                  *)
(***************************************************************************)
\* A start-up that creates the check_connection task before the first
\* attempt_connection.
MainBootWatchFirst ==
    /\ pc["main"] = "boot"
    /\ CanRun("main")
    /\ pc' = [pc EXCEPT !["main"] = "ac_top", !["watch"] = "w_top"]
    /\ sleepMs' = [sleepMs EXCEPT !["main"] = 0]
    /\ running' = "main"
    /\ UNCHANGED <<reboots, nic, left, cmd, conn, sock, sockets_opened,
                   time_is_set, in_dst, pin>>

\* _logger('Beginning a new session'); await attempt_connection()
MainBoot ==
    /\ pc["main"] = "boot"
    /\ CanRun("main")
    /\ Goto("main", "ac_top")
    /\ UNCHANGED <<reboots, nic, left, cmd, conn, sock, sockets_opened,
                   time_is_set, in_dst, pin>>

\* if CHECK_TIME > 0: uasyncio.create_task(check_connection())
WatchCreated == IF CHECK_TIME > 0 THEN "w_top" ELSE "off"

\* A start-up that does not set time_is_set.
MainSyncFlagUnset(t, ok) ==
    /\ pc["main"] = "startup"
    /\ running = "main"
    /\ IF ok
       THEN /\ pc' = [pc EXCEPT !["main"] = "sockets", !["watch"] = WatchCreated]
            /\ in_dst' = check_dst(t.date.year, t.date.month, t.date.day)
            /\ UNCHANGED time_is_set
            /\ UNCHANGED <<sock, sleepMs, running>>
       ELSE /\ pc' = [pc EXCEPT !["main"] = "reset", !["watch"] = WatchCreated]
            /\ sock' = IF sockets_opened THEN [p \in Servers |-> "closed"] ELSE sock
            /\ sleepMs' = [sleepMs EXCEPT !["main"] = 0]
            /\ running' = "main"
            /\ UNCHANGED <<in_dst, time_is_set>>
    /\ UNCHANGED <<reboots, nic, left, cmd, conn, sockets_opened, pin>>

\* create_task(check_connection()), ntptime.settime(), _check_dst(),
\* time_is_set = True; t is the time the server gives.  An OSError of
\* settime() goes to the fault handler, the check_connection task created.
MainSync(t, ok) ==
    /\ pc["main"] = "startup"
    /\ running = "main"
    /\ IF ok
       THEN /\ pc' = [pc EXCEPT !["main"] = "sockets", !["watch"] = WatchCreated]
            /\ in_dst' = check_dst(t.date.year, t.date.month, t.date.day)
            /\ time_is_set' = TRUE
            /\ UNCHANGED <<sock, sleepMs, running>>
       ELSE /\ pc' = [pc EXCEPT !["main"] = "reset", !["watch"] = WatchCreated]
            /\ sock' = IF sockets_opened THEN [p \in Servers |-> "closed"] ELSE sock
            /\ sleepMs' = [sleepMs EXCEPT !["main"] = 0]
            /\ running' = "main"
            /\ UNCHANGED <<in_dst, time_is_set>>
    /\ UNCHANGED <<reboots, nic, left, cmd, conn, sockets_opened, pin>>

\* The socket main() opens next: s1, s2, s3 in this order.
NextSocket ==
    IF sock["s1"] = "none" THEN "s1"
    ELSE IF sock["s2"] = "none" THEN "s2" ELSE "s3"

\* _get_socket(port=...): socket(), bind(), listen(1); an OSError when the
\* port cannot be bound.
MainSocket(ok) ==
    /\ pc["main"] = "sockets"
    /\ running = "main"
    /\ sock["s3"] = "none"
    /\ IF ok
       THEN /\ sock' = [sock EXCEPT ![NextSocket] = "open"]
            /\ UNCHANGED <<pc, sleepMs, running>>
       ELSE Handler
    /\ UNCHANGED <<reboots, nic, left, cmd, conn, sockets_opened, time_is_set,
                   in_dst, pin>>

\* sockets_opened = True, the four create_task calls, and the first
\* await uasyncio.sleep(180) of the closing loop.
MainSpawn ==
    /\ pc["main"] = "sockets"
    /\ running = "main"
    /\ sock["s3"] = "open"
    /\ sockets_opened' = TRUE
    /\ pc' = [t \in Tasks |->
                IF t \in Servers THEN "accept"
                ELSE IF t = "daily" THEN "poll"
                ELSE IF t = "main" THEN "idle" ELSE pc[t]]
    /\ sleepMs' = [sleepMs EXCEPT !["main"] = 180000]
    /\ running' = "none"
    /\ UNCHANGED <<reboots, nic, left, cmd, conn, sock, time_is_set, in_dst, pin>>

\* while True: await uasyncio.sleep(180)
MainIdle ==
    /\ pc["main"] = "idle"
    /\ CanRun("main")
    /\ Await("main", "idle", 180000)
    /\ UNCHANGED <<reboots, nic, left, cmd, conn, sock, sockets_opened,
                   time_is_set, in_dst, pin>>

\* machine.reset(): the device starts again from power-up.
Reset ==
    /\ pc["main"] = "reset"
    /\ nic' = "off"
    /\ pc' = [t \in Tasks |-> IF t = "main" THEN "boot" ELSE "off"]
    /\ running' = "none"
    /\ sleepMs' = [t \in Tasks |-> 0]
    /\ left' = [c \in Callers |-> 0]
    /\ cmd' = [p \in Servers |-> "none"]
    /\ conn' = [p \in Servers |-> NoConn]
    /\ sock' = [p \in Servers |-> "none"]
    /\ sockets_opened' = FALSE
    /\ time_is_set' = FALSE
    /\ in_dst' = FALSE
    /\ pin' = [r \in Pins |-> 0]
    /\ UNCHANGED reboots

(***************************************************************************)
(* The whole node.  The clock is an input here: each read of it gives one  *)
(* of the instants of Instants.                                            *)
(***************************************************************************)
Date(y, m, d) == [year |-> y, month |-> m, day |-> d]

\* 05:00 and 05:01 local time on a summer day.
Instants ==
    { [date |-> Date(2024, 7, 1), ms |-> 9 * HOUR_MS],
      [date |-> Date(2024, 7, 1), ms |-> 9 * HOUR_MS + 60000] }

Init ==
    /\ \E rb \in BOOLEAN : Boot(rb)
    /\ rtc = [date |-> Date(2024, 7, 1), ms |-> 0, days |-> 0]
    /\ hist = NoRead
    /\ fires = <<>>
    /\ handled = [p \in Servers |-> NoneHandled]
    /\ due = [t \in Tasks |-> 0]

\* The link, attempt_connection under its two callers, check_connection and
\* main.
NextLink ==
    \/ (LinkUp \/ LinkDown) /\ UNCHANGED <<rtc, hist, fires, due, handled>>
    \/ \E c \in Callers :
         /\ \/ \E ok \in BOOLEAN : Connect(c, ok)
            \/ Poll(c)
            \/ Backoff(c)
         /\ UNCHANGED <<rtc, hist, fires, due, handled>>
    \/ /\ \/ WatchTop
          \/ \E alive \in BOOLEAN : WatchProbe(alive)
       /\ UNCHANGED <<rtc, hist, fires, due, handled>>
    \/ /\ \/ MainBoot
          \/ \E t \in Instants, ok \in BOOLEAN : MainSync(t, ok)
          \/ \E ok \in BOOLEAN : MainSocket(ok)
          \/ MainSpawn
          \/ MainIdle
          \/ Reset
       /\ UNCHANGED <<rtc, hist, fires, due, handled>>

Next ==
    \/ NextLink
    \/ \E p \in Servers :
         /\ \/ \E a \in AcceptResults : Accept(p, a)
            \/ \E r \in RecvResults : Recv(p, r)
            \/ RecvAgain(p)
            \/ PulseEnd(p)
         /\ UNCHANGED <<rtc, hist, fires, due, handled>>
    \/ /\ \/ \E t \in Instants : DailyPoll(t)
          \/ DailyFsEnd
          \/ DailyGapEnd
          \/ DailyOnEnd
          \/ \E t \in Instants, ok \in BOOLEAN : DailySync(t, ok)
       /\ UNCHANGED <<rtc, hist, fires, due, handled>>

Spec == Init /\ [][Next]_vars

(***************************************************************************)
(* The link and the two callers of attempt_connection alone (the command   *)
(* servers and daily_task stay in their first sleep).  uasyncio resumes a  *)
(* task whose sleep is over: every step of an activation of                *)
(* attempt_connection that can be taken is taken.                          *)
(***************************************************************************)
AttemptStep(c) ==
    /\ \/ \E ok \in BOOLEAN : Connect(c, ok)
       \/ Poll(c)
       \/ Backoff(c)
    /\ UNCHANGED <<rtc, hist, fires, due, handled>>

SpecLink == Init /\ [][NextLink]_vars /\ \A c \in Callers : WF_vars(AttemptStep(c))

(***************************************************************************)
(* The node as main() leaves it at its first await uasyncio.sleep(180):    *)
(* linked, clock set, three sockets listening, every task created.         *)
(***************************************************************************)
Started(rb, dst) ==
    /\ reboots = rb
    /\ nic = "up"
    /\ pc = [t \in Tasks |->
               IF t \in Servers THEN "accept"
               ELSE IF t = "daily" THEN "poll"
               ELSE IF t = "main" THEN "idle" ELSE "w_top"]
    /\ running = "none"
    /\ sleepMs = [t \in Tasks |-> IF t = "main" THEN 180000 ELSE 0]
    /\ left = [c \in Callers |-> 0]
    /\ cmd = [p \in Servers |-> "none"]
    /\ conn = [p \in Servers |-> NoConn]
    /\ sock = [p \in Servers |-> "open"]
    /\ sockets_opened = TRUE
    /\ time_is_set = TRUE
    /\ in_dst = dst
    /\ pin = [r \in Pins |-> 0]

(***************************************************************************)
(* The command servers, with the last read recorded.  The other tasks are  *)
(* in their sleeps (180 s, 30 s) and are not scheduled.                    *)
(***************************************************************************)
\* The time a recv that ends in ETIMEDOUT has sat in the call.
Waited(p, r) == IF ~r.ok /\ r.errno = ETIMEDOUT THEN conn[p].timeout ELSE 0

\* The counts of the connection after a read: data.decode() runs on every
\* read that returns bytes, a pulse starts when the server goes to await one.
Counted(p, r) ==
    LET inc(n, b) == IF b /\ n < 2 THEN n + 1 ELSE n
    IN  [decoded |-> inc(handled[p].decoded, r.ok),
         pulsed |-> inc(handled[p].pulsed, pc'[p] = "pulse")]

InitCmd ==
    /\ Started(FALSE, TRUE)
    /\ rtc = [date |-> Date(2024, 7, 1), ms |-> 0, days |-> 0]
    /\ hist = NoRead
    /\ fires = <<>>
    /\ handled = [p \in Servers |-> NoneHandled]
    /\ due = [t \in Tasks |-> 0]

NextCmd ==
    \E p \in Servers :
      \/ \E a \in AcceptResults :
           /\ Accept(p, a)
           /\ hist' = IF hist.srv = p /\ (a.ok \/ a.errno # EAGAIN) THEN NoRead ELSE hist
           /\ handled' = IF a.ok THEN [handled EXCEPT ![p] = NoneHandled] ELSE handled
           /\ UNCHANGED <<rtc, fires, due>>
      \/ \E r \in RecvResults :
           /\ Recv(p, r)
           /\ hist' = [srv |-> p, r |-> r, waited |-> Waited(p, r)]
           /\ handled' = [handled EXCEPT ![p] = Counted(p, r)]
           /\ UNCHANGED <<rtc, fires, due>>
      \/ /\ RecvAgain(p)
         /\ UNCHANGED <<rtc, hist, fires, due, handled>>
      \/ /\ PulseEnd(p)
         /\ UNCHANGED <<rtc, hist, fires, due, handled>>

SpecCmd == InitCmd /\ [][NextCmd]_vars

(***************************************************************************)
(* The scheduler against a running clock.  uasyncio resumes the task whose *)
(* sleep ends first, not before that time; the clock moves while every     *)
(* task sleeps and while the interpreter sits in a blocking call.          *)
(***************************************************************************)
\* Milliseconds since the midnight before power-up.
Now == rtc.days * DAY_MS + rtc.ms

\* The clock delta milliseconds later (0 <= delta <= DAY_MS), counting the
\* midnights passed since power-up.
Tick(t, delta) ==
    LET n == Shift(t, delta)
    IN  [date |-> n.date, ms |-> n.ms,
         days |-> IF n.date = t.date THEN t.days ELSE t.days + 1]

Alive(u) == pc[u] \notin {"off", "dead", "reset"}

\* Among the tasks S that are scheduled, t is the one to run next.
Runnable(S, t) ==
    /\ t \in S
    /\ running \in {"none", t}
    /\ running = "none" => \A u \in S : Alive(u) => due[t] <= due[u]

\* The time at which t runs.
Resumed(t) == IF running = t \/ due[t] < Now THEN Now ELSE due[t]

\* Task t runs its step, which sits `block` ms in a blocking call, and the
\* sleep it ends in (sleepMs') starts when the step is over.
Timed(S, t, block) ==
    /\ Runnable(S, t)
    /\ LET end == Resumed(t) + block
       IN  /\ rtc' = Tick(rtc, end - Now)
           /\ due' = [due EXCEPT ![t] = end + sleepMs'[t]]

\* The time conn.recv sits in the call: none when it returns data or an
\* error, the timeout of the connection when it times out.
BlockMs(p, r) ==
    IF ~r.ok /\ r.errno \in {ETIMEDOUT, EAGAIN} THEN conn[p].timeout ELSE 0

\* A firing is a poll that does not go back to sleep for 30 s; it is
\* recorded with the local time that _get_localtime() gave it.
Fired(t) ==
    IF pc'["daily"] # "poll" THEN Append(fires, get_localtime(t, in_dst)) ELSE fires

\* daily_task, reading the clock at the time it runs.
TimedDaily(S) ==
    LET t == Tick(rtc, Resumed("daily") - Now)
    IN  \/ DailyPoll(t) /\ Timed(S, "daily", 0) /\ fires' = Fired(t)
        \/ DailyFsEnd /\ Timed(S, "daily", 0) /\ UNCHANGED fires
        \/ DailyGapEnd /\ Timed(S, "daily", 0) /\ UNCHANGED fires
        \/ DailyOnEnd /\ Timed(S, "daily", 0) /\ UNCHANGED fires
        \/ \E ok \in BOOLEAN :
             DailySync(t, ok) /\ Timed(S, "daily", 0) /\ UNCHANGED fires

\* receive_command on port p.
TimedServer(S, p) ==
    \/ \E a \in AcceptResults : Accept(p, a) /\ Timed(S, p, 0)
    \/ \E r \in RecvResults : Recv(p, r) /\ Timed(S, p, BlockMs(p, r))
    \/ RecvAgain(p) /\ Timed(S, p, 0)
    \/ PulseEnd(p) /\ Timed(S, p, 0)

(***************************************************************************)
(* daily_task alone, over days                                             *)
(***************************************************************************)
MaxDays == 2

\* The device is powered up on the eve of a change of daylight saving time,
\* or on an ordinary day.
BootInstants ==
    { [date |-> Date(2024, 3, 9), ms |-> 12 * HOUR_MS + 7000, days |-> 0],
      [date |-> Date(2024, 11, 2), ms |-> 12 * HOUR_MS + 7000, days |-> 0],
      [date |-> Date(2024, 11, 2), ms |-> 20 * HOUR_MS + 1799000, days |-> 0],
      [date |-> Date(2024, 7, 1), ms |-> 3 * HOUR_MS + 15000, days |-> 0] }

InitDaily ==
    /\ rtc \in BootInstants
    /\ \E rb \in BOOLEAN :
         Started(rb, check_dst(rtc.date.year, rtc.date.month, rtc.date.day))
    /\ hist = NoRead
    /\ fires = <<>>
    /\ handled = [p \in Servers |-> NoneHandled]
    /\ due = [t \in Tasks |-> Now]

NextDaily ==
    /\ rtc.days < MaxDays
    /\ TimedDaily({"daily"})
    /\ UNCHANGED <<hist, handled>>

SpecDaily == InitDaily /\ [][NextDaily]_vars

(***************************************************************************)
(* The tasks that drive the reboot relay, over the seconds of a scheduled  *)
(* reboot: the device has come up at 05:00:00 local time.                  *)
(***************************************************************************)
MaxSecs == 12

RebootTasks == { p \in Servers : RelayOf(p) = REBOOT_RELAY } \cup {"daily"}

PulseBoot == [date |-> Date(2024, 7, 1), ms |-> 9 * HOUR_MS, days |-> 0]

InitPulse ==
    /\ rtc = PulseBoot
    /\ \E rb \in BOOLEAN : Started(rb, TRUE)
    /\ hist = NoRead
    /\ fires = <<>>
    /\ handled = [p \in Servers |-> NoneHandled]
    /\ due = [t \in Tasks |-> Now]

NextPulse ==
    /\ Now < 9 * HOUR_MS + MaxSecs * 1000
    /\ \/ TimedDaily(RebootTasks) 
       \/ \E p \in RebootTasks \ {"daily"} : TimedServer(RebootTasks, p) /\ UNCHANGED fires
    /\ UNCHANGED <<hist, handled>>

SpecPulse == InitPulse /\ [][NextPulse]_vars

(***************************************************************************)
(* One firing of daily_task on each date of a range of years: the poll     *)
(* that finds 05:00 local time, then the resynchronization and _check_dst. *)
(***************************************************************************)
MaxYears == 10

Years == 2020 .. (2020 + MaxYears)

Dates ==
    UNION { { Date(y, m, d) : d \in 1..DaysIn(y, m) } : y \in Years, m \in 1..12 }

InitDst ==
    /\ \E dst \in BOOLEAN :
         /\ Started(FALSE, dst)
         /\ \E dt \in Dates :
              rtc = [date |-> dt, ms |-> IF dst THEN 9 * HOUR_MS ELSE 10 * HOUR_MS,
                     days |-> 0]
    /\ hist = NoRead
    /\ fires = <<>>
    /\ handled = [p \in Servers |-> NoneHandled]
    /\ due = [t \in Tasks |-> 0]

NextDst ==
    /\ sleepMs["daily"] = 0
    /\ \/ DailyPoll(rtc)
       \/ \E ok \in BOOLEAN : DailySync(rtc, ok)
    /\ UNCHANGED <<rtc, hist, fires, due, handled>>

SpecDst == InitDst /\ [][NextDst]_vars

(***************************************************************************)
(* The tasks that drive relays: the three command servers and daily_task.  *)
(* uasyncio resumes a task whose sleep is over once the task holding the   *)
(* interpreter suspends, a blocking recv returns within its timeout, and a *)
(* server that keeps finding connections to accept finds none in the end   *)
(* (clients are finitely many at a time).                                  *)
(***************************************************************************)
ServerStep(p) ==
    /\ \/ \E a \in AcceptResults : Accept(p, a)
       \/ \E r \in RecvResults : Recv(p, r)
       \/ RecvAgain(p)
       \/ PulseEnd(p)
    /\ UNCHANGED <<rtc, hist, fires, due, handled>>

\* accept finds no connection pending: await uasyncio.sleep_ms(100).
NonePending(p) ==
    /\ Accept(p, [ok |-> FALSE, errno |-> EAGAIN])
    /\ UNCHANGED <<rtc, hist, fires, due, handled>>

DailyStep ==
    /\ \/ \E t \in Instants : DailyPoll(t)
       \/ DailyFsEnd
       \/ DailyGapEnd
       \/ DailyOnEnd
       \/ \E t \in Instants, ok \in BOOLEAN : DailySync(t, ok)
    /\ UNCHANGED <<rtc, hist, fires, due, handled>>

InitRelay ==
    /\ \E rb \in BOOLEAN : Started(rb, TRUE)
    /\ rtc = [date |-> Date(2024, 7, 1), ms |-> 0, days |-> 0]
    /\ hist = NoRead
    /\ fires = <<>>
    /\ handled = [p \in Servers |-> NoneHandled]
    /\ due = [t \in Tasks |-> 0]

NextRelay == (\E p \in Servers : ServerStep(p)) \/ DailyStep

SpecRelay ==
    /\ InitRelay
    /\ [][NextRelay]_vars
    /\ \A p \in Servers : SF_vars(ServerStep(p)) /\ SF_vars(NonePending(p))
    /\ SF_vars(DailyStep)

(***************************************************************************)
(* Properties                                                              *)
(***************************************************************************)
\* The two payloads of the wire protocol.
ValidCommand(r) ==
    /\ r.ok
    /\ r.data \in { <<"{", "s:gpio", ":", "s:on", "}">>,
                    <<"{", "s:gpio", ":", "s:fs", "}">> }

\* C1: a server whose last read gave anything but a JSON object with 'gpio'
\* equal to 'on' or 'fs' is not in a pulse and awaits no pulse coroutine, and
\* every pin that is HIGH is HIGH by the pulse of its own server, so the
\* read drove no relay.
C1_NoActuationOnInvalid ==
    \A p \in Servers :
        (hist.srv = p /\ ~ValidCommand(hist.r)) =>
            /\ pc[p] # "pulse"
            /\ cmd[p] = "none"
            /\ \A q \in Servers : pin[RelayOf(q)] = 1 => (q # p /\ pc[q] = "pulse")

\* An unrecognized 'gpio' value has been read and handled, the relay is LOW.
C1_Witness ==
    \E p \in Servers :
        /\ hist.srv = p
        /\ hist.r.ok
        /\ hist.r.data = <<"{", "s:gpio", ":", "s:xyz", "}">>
        /\ pc[p] = "accept"
        /\ pin[RelayOf(p)] = 0

\* C2: once a server's read has given a payload or has timed out, and the
\* pulse it may have started is over, the connection is closed.
C2_ClosedAfterDecision ==
    \A p \in Servers :
        (hist.srv = p /\ (hist.r.ok \/ hist.r.errno = ETIMEDOUT) /\ pc[p] # "pulse")
            => ~conn[p].open

\* C3: a server whose last read gave a payload that is no valid command is
\* still alive (it goes back to accept).
C3_ProtocolErrorNotFatal ==
    \A p \in Servers :
        (hist.srv = p /\ hist.r.ok /\ ~ValidCommand(hist.r)) => pc[p] # "dead"

\* C4: while the pulse of a valid command has not lasted the duration of the
\* command (200 ms for 'on', 7000 ms for 'fs', which differ), the relay bound
\* to the port of the server is HIGH.
C4_PulseHeld ==
    \A p \in Servers :
        (pc[p] = "pulse" /\ running # p) =>
            /\ cmd[p] \in {"on", "fs"}
            /\ sleepMs[p] = (IF cmd[p] = "on" THEN 200 ELSE 7000)
            /\ Now < due[p] => pin[RelayOf(p)] = 1

\* C5: while a server sits in recv on a connection that has delivered
\* nothing yet, a server on another port that is at accept can run.
C5_PortsIndependent ==
    \A p, q \in Servers :
        (p # q /\ pc[p] = "recv" /\ running = p /\ pc[q] = "accept") =>
            ENABLED (\E a \in AcceptResults : Accept(q, a))

\* The tasks suspended inside a pulse on pin r.
Pulsing(r) ==
    { p \in Servers : RelayOf(p) = r /\ pc[p] = "pulse" }
        \cup (IF REBOOT_RELAY = r /\ pc["daily"] \in {"d_fs", "d_on"}
              THEN {"daily"} ELSE {})

\* C6: at most one pulse is in progress on a pin.
C6_ExclusiveRelay == \A r \in Pins : Cardinality(Pulsing(r)) <= 1

\* C7: no task has ended on a fault unless the node is at reset().
C7_CrashOnly ==
    \A t \in Tasks : pc[t] = "dead" => pc["main"] = "reset"

\* C8: daily_task runs its body at most once on a local calendar date, and
\* only at REBOOT_TIME:00.
C8_OncePerDay ==
    /\ \A i, j \in 1..Len(fires) : i # j => fires[i].date # fires[j].date
    /\ \A i \in 1..Len(fires) :
          fires[i].hour = REBOOT_TIME /\ fires[i].minute = 0

InReconnect == pc["watch"] \in {"ac_top", "ac_poll", "ac_backoff"}

C10_IdleTimeout ==
    \A p \in Servers :
        (hist.srv = p /\ ~hist.r.ok /\ hist.r.errno = ETIMEDOUT) =>
            /\ hist.waited = 3000
            /\ ~conn[p].open
            /\ pc[p] = "accept"
            /\ cmd[p] = "none"
            /\ pin[RelayOf(p)] = 0

C10_Witness ==
    \E p \in Servers :
        /\ hist.srv = p
        /\ ~hist.r.ok
        /\ hist.r.errno = ETIMEDOUT
        /\ pc[p] = "accept"
        /\ running = "none"

\* A day of the week by counting days: 2000-01-01 was a Saturday (5, with
\* Monday = 0).
RefDayOfYear(y, m, d) ==
    <<0, 31, 59, 90, 120, 151, 181, 212, 243, 273, 304, 334>>[m]
        + (IF m > 2 /\ IsLeap(y) THEN 1 ELSE 0) + d

RefWeekday(y, m, d) ==
    (365 * (y - 2000) + Cardinality({ yy \in 2000..(y - 1) : IsLeap(yy) })
        + RefDayOfYear(y, m, d) - 1 + 5) % 7

RefSunday(y, m, days) == CHOOSE d \in days : RefWeekday(y, m, d) = 6

\* Daylight saving time by the rule: from the second Sunday of March to the
\* day before the first Sunday of November.
RefInDst(dt) ==
    LET a == RefSunday(dt.year, 3, 8..14)
        b == RefSunday(dt.year, 11, 1..7)
    IN  \/ 3 < dt.month /\ dt.month < 11
        \/ dt.month = 3 /\ dt.day >= a
        \/ dt.month = 11 /\ dt.day < b

SyncDone == pc["daily"] = "poll" /\ sleepMs["daily"] = 3600000

\* C11: after the firing of a date, in_dst is true exactly when the date lies
\* from the second Sunday of March to the day before the first Sunday of
\* November; _weekday is the day of the week on March 1 and November 1 of
\* every year of the range; in 2024 the two Sundays are March 10 and
\* November 3.
C11_DstRule ==
    /\ SyncDone => (in_dst <=> RefInDst(rtc.date))
    /\ \A y \in Years :
         /\ weekday(y, 3, 1) = RefWeekday(y, 3, 1)
         /\ weekday(y, 11, 1) = RefWeekday(y, 11, 1)
    /\ second_sun_mar(2024) = 10
    /\ first_sun_nov(2024) = 3

\* The firing of 2024-03-10 has set in_dst, that of 2024-11-03 has not.
C11_Witness ==
    /\ SyncDone
    /\ \/ rtc.date = Date(2024, 3, 10) /\ in_dst
       \/ rtc.date = Date(2024, 11, 3) /\ ~in_dst

\* C12: on the connection a server accepted last it has decoded at most one
\* payload and started at most one pulse, and a pulse only for a payload it
\* decoded; a server awaiting a pulse has decoded one payload and started
\* this one pulse.
C12_OneCommandPerConnection ==
    \A p \in Servers :
        /\ handled[p].decoded <= 1
        /\ handled[p].pulsed <= handled[p].decoded
        /\ pc[p] = "pulse" => handled[p] = [decoded |-> 1, pulsed |-> 1]

\* One server has read two commands sent one after the other and has closed
\* the connection; another awaits the pulse of the one command it decoded.
C12_Witness ==
    \E p, q \in Servers :
        /\ hist.srv = p
        /\ hist.r.data = <<"{", "s:gpio", ":", "s:on", "}", "{", "s:gpio", ":", "s:fs", "}">>
        /\ pc[p] = "accept"
        /\ ~conn[p].open
        /\ handled[p] = [decoded |-> 1, pulsed |-> 0]
        /\ pc[q] = "pulse"
        /\ conn[q].open
        /\ handled[q] = [decoded |-> 1, pulsed |-> 1]

\* C13: a server that stands at accept holds no open connection; the
\* connection it holds is open only while it reads it, awaits the pulse it
\* started for it, or after an exception has ended the task.
C13_NoAcceptWhileOpen ==
    \A p \in Servers :
        /\ pc[p] = "accept" => ~conn[p].open
        /\ conn[p].open => pc[p] \in {"recv", "recvwait", "pulse", "dead"}

\* A server is back at accept after the pulse of a command, its connection
\* closed, while another server holds an open connection.
C13_Witness ==
    \E p, q \in Servers :
        /\ pc[p] = "accept"
        /\ handled[p].pulsed = 1
        /\ ~conn[p].open
        /\ conn[q].open
        /\ pc[q] = "recvwait"

InAttempt(c) == pc[c] \in {"ac_top", "ac_poll", "ac_backoff"}

\* C14: main and check_connection are never inside attempt_connection at the
\* same time: while main is inside it the check_connection task does not
\* exist yet, and check_connection is inside it only while main idles.
C14_OneAttempt ==
    /\ ~(InAttempt("main") /\ InAttempt("watch"))
    /\ InAttempt("main") => pc["watch"] = "off"
    /\ InAttempt("watch") => pc["main"] = "idle"

\* check_connection is in the backoff of a failed attempt while main idles.
C14_Witness ==
    /\ pc["watch"] = "ac_backoff"
    /\ pc["main"] = "idle"
    /\ nic = "joining"

\* The activation of caller c has returned to it.
Returned(c) == pc[c] = (IF c = "main" THEN "startup" ELSE "w_sleep")

\* C15: attempt_connection returns only while the link reports connected;
\* an attempt sleeps 1 s at most NETWORK_TIMEOUT times (network_timeout
\* starts one below it and loses one at each further sleep); an attempt
\* that has used them up without a link is followed by a sleep of 1 s and
\* by another attempt; an activation that stays inside while the link stays
\* connected does not exist.
C15_AttemptConnection ==
    /\ [](\A c \in Callers :
            /\ left[c] \in 0..(NETWORK_TIMEOUT - 1)
            /\ pc[c] \in {"ac_poll", "ac_backoff"} => sleepMs[c] = 1000)
    /\ [][\A c \in Callers :
            /\ (InAttempt(c) /\ Returned(c)') => (nic = "up" /\ nic' = "up")
            /\ (pc[c] = "ac_top" /\ pc'[c] = "ac_poll")
                  => left'[c] = NETWORK_TIMEOUT - 1
            /\ (pc[c] = "ac_poll" /\ pc'[c] = "ac_poll" /\ left'[c] # left[c])
                  => left'[c] = left[c] - 1
            /\ (pc[c] = "ac_poll" /\ pc'[c] = "ac_backoff")
                  => (left[c] = 0 /\ nic # "up")
            /\ (pc[c] = "ac_backoff" /\ pc'[c] # "ac_backoff")
                  => pc'[c] = "ac_top"
       ]_vars
    /\ \A c \in Callers : InAttempt(c) ~> (~InAttempt(c) \/ nic # "up")

\* The link has come up during the sleep of the last poll of an attempt of
\* check_connection.
C15_Witness ==
    /\ pc["watch"] = "ac_poll"
    /\ left["watch"] = 0
    /\ nic = "up"
    /\ pc["main"] = "idle"

\* A read that returned the first bytes of a message and not all of it.
PartialRead(r) == r.ok /\ r.data # <<>> /\ r.data \in Chunks \ Messages

\* C16: a server whose last read returned part of a payload still holds its
\* connection open and is suspended before reading again.
C16_PartialReadRetried ==
    \A p \in Servers :
        (hist.srv = p /\ PartialRead(hist.r)) =>
            /\ conn[p].open
            /\ pc[p] \in {"recvwait", "recv"}

\* C17: when the fault handler of main has run and reset() is next, no
\* listening socket of the session is open.
C17_SocketsClosedBeforeReset ==
    pc["main"] = "reset" => \A p \in Servers : sock[p] # "open"

\* main has not yet come back from its attempt_connection.
BeforeLink == pc["main"] \in {"boot", "ac_top", "ac_poll", "ac_backoff"}

\* C18: until attempt_connection has returned to main, and it returns with
\* the link connected (or an exception takes main to its fault handler), no
\* socket has been opened and no task created; the command servers and
\* daily_task exist only with time_is_set true; and time_is_set goes back to
\* false only when the device restarts.
C18_StartupOrder ==
    /\ [](BeforeLink =>
            /\ \A p \in Servers : sock[p] = "none"
            /\ \A t \in Tasks \ {"main"} : pc[t] = "off"
            /\ ~time_is_set)
    /\ []((\E t \in Servers \cup {"daily"} : pc[t] # "off") => time_is_set)
    /\ [][ /\ (BeforeLink /\ ~BeforeLink') =>
                 \/ pc'["main"] = "startup" /\ nic' = "up"
                 \/ pc'["main"] = "reset"
           /\ (time_is_set /\ ~time_is_set') => (pc["main"] = "reset" /\ pc'["main"] = "boot")
         ]_vars

\* The start-up is over: main idles, the clock is set, the sockets listen
\* and every task has been created and has not run yet.
C18_Witness ==
    /\ pc["main"] = "idle"
    /\ time_is_set
    /\ \A p \in Servers : sock[p] = "open" /\ pc[p] = "accept"
    /\ pc["daily"] = "poll"
    /\ pc["watch"] = "w_top"

\* C19: with reboots enabled a firing of daily_task drives the reboot relay
\* HIGH for LONG_RELAY_TIME and LOW again, sleeps 3 s, drives it HIGH for
\* SHORT_RELAY_TIME and LOW again, and only then sets the clock and in_dst;
\* the relay is HIGH exactly during the two pulses.  With reboots disabled a
\* firing goes straight to setting the clock and in_dst and no step of
\* daily_task changes a relay.  in_dst changes in no other step.
C19_FiringOrder ==
    /\ [](IF reboots
          THEN pin[REBOOT_RELAY] = 1 <=> pc["daily"] \in {"d_fs", "d_on"}
          ELSE \A r \in Pins : pin[r] = 0)
    /\ [][LET a == pc["daily"]
              b == pc'["daily"]
              slept == Now' - Now
          IN  /\ (a = "poll" /\ b # "poll") =>
                    IF reboots
                    THEN /\ b = "d_fs"
                         /\ pin'[REBOOT_RELAY] = 1
                         /\ sleepMs'["daily"] = LONG_RELAY_TIME
                    ELSE b = "d_sync" /\ pin' = pin
              /\ a = "d_fs" =>
                    /\ b = "d_gap"
                    /\ slept = LONG_RELAY_TIME
                    /\ pin'[REBOOT_RELAY] = 0
                    /\ sleepMs'["daily"] = 3000
              /\ a = "d_gap" =>
                    /\ b = "d_on"
                    /\ slept = 3000
                    /\ pin'[REBOOT_RELAY] = 1
                    /\ sleepMs'["daily"] = SHORT_RELAY_TIME
              /\ a = "d_on" =>
                    /\ b = "d_sync"
                    /\ slept = SHORT_RELAY_TIME
                    /\ pin'[REBOOT_RELAY] = 0
              /\ a = "d_sync" =>
                    \/ b = "dead" /\ pin' = pin
                    \/ /\ b = "poll"
                       /\ pin' = pin
                       /\ in_dst' = check_dst(rtc.date.year, rtc.date.month, rtc.date.day)
                       /\ sleepMs'["daily"] = 3600000
              /\ in_dst' # in_dst => a = "d_sync"
         ]_vars

\* A firing with reboots enabled is over: the relay is LOW, in_dst has been
\* recomputed (the firing of 2024-11-03, which ends daylight saving time)
\* and daily_task sleeps its 3600 s.
C19_Witness ==
    /\ reboots
    /\ Len(fires) = 1
    /\ fires[1].date = Date(2024, 11, 3)
    /\ ~in_dst
    /\ pc["daily"] = "poll"
    /\ sleepMs["daily"] = 3600000
    /\ pin[REBOOT_RELAY] = 0

\* The pulse coroutines suspended in their wait on relay r.
PulsesOn(r) ==
    { p \in Servers : RelayOf(p) = r /\ pc[p] = "pulse" }
        \cup (IF r = REBOOT_RELAY /\ pc["daily"] \in {"d_fs", "d_on"} THEN {"daily"} ELSE {})

\* C20: a relay is HIGH only while a pulse coroutine on it is suspended in
\* its wait; every pulse wait ends, and the step that ends it leaves the
\* relay LOW; so a relay that is HIGH goes LOW.
C20_NoRelayStuckHigh ==
    /\ [](\A r \in Pins : pin[r] = 1 => PulsesOn(r) # {})
    /\ [][\A r \in Pins : \A t \in PulsesOn(r) : pc'[t] # pc[t] => pin'[r] = 0]_vars
    /\ \A p \in Servers : (pc[p] = "pulse") ~> (pc[p] # "pulse")
    /\ (pc["daily"] = "d_fs") ~> (pc["daily"] = "d_gap")
    /\ (pc["daily"] = "d_on") ~> (pc["daily"] # "d_on")
    /\ \A r \in Pins : (pin[r] = 1) ~> (pin[r] = 0)

\* Two pulses are in progress on the reboot relay, a third on another relay.
C20_Witness ==
    /\ pin[REBOOT_RELAY] = 1
    /\ Cardinality(PulsesOn(REBOOT_RELAY)) = 2
    /\ \E r \in Pins \ {REBOOT_RELAY} : pin[r] = 1 /\ PulsesOn(r) # {}

====
